---------------------------- MODULE Spec2Model ----------------------------
(***************************************************************************)
(* A model of two parts of the server:                                     *)
(*   - the video decode worker (modules/ffmpeg/producer/video/             *)
(*     video_decoder.cpp): an agent that receives packets of one stream,   *)
(*     decodes them and sends frames and control markers downstream;       *)
(*   - the output dispatcher (src/core/consumer/output.cpp): the registry  *)
(*     of frame consumers and the per-tick fan-out of a frame to them.     *)
(***************************************************************************)
EXTENDS Integers, Sequences, FiniteSets, TLC

(***************************************************************************)
(* Bounds of the model.                                                    *)
(***************************************************************************)
\* packets the upstream source offers to the worker's channel in one run
MaxPackets == 3
\* frames the external codec can hold back (its internal delay)
MaxHeld == 2
\* distinct tickets the upstream attaches to packets
MaxTicket == 2
\* the clock reading after which the driver makes no further call, in units of
\* 10 milliseconds
MaxNow == 4
\* holders that share one duplicated frame
MaxHolders == 2
\* planes of a frame: the size of org_ptrs and real_ptrs
MaxPlanes == 4

VARIABLES
    \* ---- video_decoder::implementation ----
    source_,        \* unbounded_buffer<source_element_t>: elements not yet received
    target_,        \* everything sent to the ITarget, in order
    held,           \* frames the codec holds back inside codec_context_
    cap_delay,      \* codec_context_->codec->capabilities & CODEC_CAP_DELAY
    status,         \* the agent: "running" (after start()) or "done" (after done())
    handle,         \* the owner: "alive", "waiting" (in ~implementation), "destroyed"
    logged,         \* exceptions logged by CASPAR_LOG_CURRENT_EXCEPTION in run()
    ncalls,         \* calls of decode() made so far
    offered,        \* packets the upstream has offered to the channel so far
    flushed,        \* frames emitted by the latest Loop flush (-1: no Loop handled yet)
    \* ---- dup_frame ----
    frames,         \* AVFrame -> its data pointers, the org_ptrs and real_ptrs its
                    \* deleter holds, the use count of the duplicated safe_ptr and the
                    \* times the deleter has run
    heap,           \* blocks that scalable_aligned_malloc returned and that were not
                    \* freed since
    invalid_free,   \* scalable_aligned_free got a pointer that is no allocated block
    \* ---- output::impl ----
    format_desc_,   \* the current video format
    consumers_,     \* std::map<int, frame_consumer>: index -> consumer, or null
    consumers_mutex_, \* who holds the registry mutex: "free", "driver" or a caller
    time_,          \* boost::optional<time_point_t>: the pacing deadline, or no_time
    state_,         \* monitor::state: the aggregated diagnostic state
    \* ---- one call of output::impl::operator() on the driver thread ----
    pc,             \* where the driver is in operator(); "idle" between calls
    tick,           \* which path the call takes: empty, invalid, format or deliver
    input_frame,    \* argument: the frame's size, no_frame for an empty frame
    format_desc,    \* argument: the format the frame was produced in
    time,           \* local: the deadline moved out of time_
    consumers,      \* local: the copy of consumers_ taken under the lock
    futures,        \* local: index -> the result its future will yield
    it,             \* local: the iterator over consumers_
    p,              \* local: the iterator over futures
    entry,          \* consumers_ as it was when the call began (observation)
    calls,          \* the calls into consumers made by this call, in order (observation)
    it_node,        \* the consumer in the map node that it points to (observation)
    last_tick,      \* when the latest delivery that paced itself ended, or no_time
                    \* (observation)
    wanted,         \* the format the driver is switching to, or no_format when it
                    \* calls with any format
    \* ---- callers of add / remove on other threads ----
    cpc,            \* caller -> where it is in add(): "idle", "add_init", "add_insert"
    cargs,          \* caller -> the arguments <<index, consumer>> of its add()
    \* ---- the clock ----
    now             \* std::chrono::high_resolution_clock::now(), in microseconds

decoder_vars == <<source_, target_, held, cap_delay, status, handle, logged,
                  ncalls, offered, flushed>>

output_vars == <<format_desc_, consumers_, consumers_mutex_, time_, state_, pc, tick,
                 input_frame, format_desc, time, consumers, futures, it, p, entry,
                 calls, it_node, last_tick, wanted, cpc, cargs, now>>

dup_vars == <<frames, heap, invalid_free>>

vars == <<decoder_vars, dup_vars, output_vars>>

(***************************************************************************)
(* The decode worker.                                                      *)
(***************************************************************************)
\* the stream this worker decodes (index_, set by open_codec)
index_ == 0
\* the streams of the container the packets come from
Streams == {0, 1}
\* a default-constructed ticket_t
ticket_t == 0
Tickets == 1..MaxTicket
PacketKinds == {"data", "loop", "eof"}

\* an element of the source: a packet (first) and its ticket (second)
source_element_t ==
    [first : [kind : PacketKinds, stream_index : Streams], second : Tickets]

\* a data packet, loop_packet(i) or eof_packet(i)
loop_packet(i) == [kind |-> "loop", stream_index |-> i]
eof_packet(i) == [kind |-> "eof", stream_index |-> i]

\* the filter of source_: only the packets of this worker's stream pass
source_filter(element) == element.first.stream_index = index_

\* a faulty variant: the frame is sent with a fresh ticket
frame_element_fresh(element) == [kind |-> "frame", ticket |-> ticket_t]
\* target_element_t(dup_frame(frame), element.second)
frame_element(element) == [kind |-> "frame", ticket |-> element.second]
\* target_element_t(loop_video(), ticket_t())
loop_element(element) == [kind |-> "loop", ticket |-> ticket_t]
\* target_element_t(eof_video(), ticket_t())
eof_element == [kind |-> "eof", ticket |-> ticket_t]

\* a faulty variant: the codec is flushed without being drained first
flush_frames_none(n, element) == << >>
\* n frames flushed out of the codec on behalf of element, in order
RECURSIVE flush_frames(_, _)
flush_frames(n, element) ==
    IF n = 0 THEN << >>
    ELSE <<frame_element(element)>> \o flush_frames(n - 1, element)

\* a faulty variant: eof is sent inside the try block, so a failure sends none
run_exit_silent(sent) == sent
\* the tail of run(): what is sent after the loop was left
run_exit(sent) == Append(sent, eof_element)

\* a faulty variant: the destructor does not wait for the agent
agent_wait_none == TRUE
\* ~implementation: agent::wait(this) returns once the agent is done
agent_wait == status = "done"

DecoderInit ==
    /\ source_ = << >>
    /\ target_ = << >>
    /\ held = 0
    /\ cap_delay \in BOOLEAN
    /\ status = "running"
    /\ handle = "alive"
    /\ logged = 0
    /\ ncalls = 0
    /\ offered = 0
    /\ flushed = -1

\* the upstream source offers an element; source_ keeps it if its filter accepts
Offer ==
    /\ UNCHANGED <<output_vars, dup_vars>>
    /\ handle # "destroyed"
    /\ offered < MaxPackets
    /\ \E element \in source_element_t :
          /\ source_' = IF source_filter(element) THEN Append(source_, element)
                        ELSE source_
          /\ offered' = offered + 1
    /\ UNCHANGED <<target_, held, cap_delay, status, handle, logged, ncalls, flushed>>

\* run(): a data packet whose decode() returns a frame, which is sent on
RunFrame ==
    /\ UNCHANGED <<output_vars, dup_vars>>
    /\ status = "running" /\ source_ # << >>
    /\ LET element == Head(source_) IN
          /\ element.first.kind = "data"
          /\ source_' = Tail(source_)
          /\ target_' = Append(target_, frame_element(element))
    /\ ncalls' = ncalls + 1
    /\ UNCHANGED <<held, cap_delay, status, handle, logged, offered, flushed>>

\* run(): a data packet whose decode() returns nullptr (frame_finished == 0):
\* the codec kept the picture (only a codec with delay does) or had none
RunNoFrame ==
    /\ UNCHANGED <<output_vars, dup_vars>>
    /\ status = "running" /\ source_ # << >>
    /\ Head(source_).first.kind = "data"
    /\ source_' = Tail(source_)
    /\ \/ held' = held
       \/ cap_delay /\ held < MaxHeld /\ held' = held + 1
    /\ ncalls' = ncalls + 1
    /\ UNCHANGED <<target_, cap_delay, status, handle, logged, offered, flushed>>

\* run(): a data packet whose decode() throws; the exception is logged, the
\* loop is left, eof is sent and the agent is done
RunThrow ==
    /\ UNCHANGED <<output_vars, dup_vars>>
    /\ status = "running" /\ source_ # << >>
    /\ Head(source_).first.kind = "data"
    /\ source_' = Tail(source_)
    /\ ncalls' = ncalls + 1
    /\ logged' = logged + 1
    /\ target_' = run_exit(target_)
    /\ status' = "done"
    /\ UNCHANGED <<held, cap_delay, handle, offered, flushed>>

\* run(): the loop packet: a codec with delay is drained by decoding empty
\* packets until decode() returns nullptr, then the codec is flushed and the
\* loop marker sent
RunLoop ==
    /\ UNCHANGED <<output_vars, dup_vars>>
    /\ status = "running" /\ source_ # << >>
    /\ LET element == Head(source_)
           n == IF cap_delay THEN held ELSE 0 IN
          /\ element.first = loop_packet(index_)
          /\ source_' = Tail(source_)
          /\ target_' = Append(target_ \o flush_frames(n, element), loop_element(element))
          /\ ncalls' = ncalls + (IF cap_delay THEN n + 1 ELSE 0)
          /\ flushed' = n
    /\ held' = 0
    /\ UNCHANGED <<cap_delay, status, handle, logged, offered>>

\* run(): the loop packet, and one of the draining decode() calls throws after
\* k frames were sent
RunLoopThrow ==
    /\ UNCHANGED <<output_vars, dup_vars>>
    /\ status = "running" /\ source_ # << >>
    /\ cap_delay
    /\ LET element == Head(source_) IN
          /\ element.first = loop_packet(index_)
          /\ source_' = Tail(source_)
          /\ \E k \in 0..held :
                /\ target_' = run_exit(target_ \o flush_frames(k, element))
                /\ ncalls' = ncalls + k + 1
                /\ held' = held - k
                /\ flushed' = k
    /\ logged' = logged + 1
    /\ status' = "done"
    /\ UNCHANGED <<cap_delay, handle, offered>>

\* run(): the eof packet: break, send eof, done()
RunEof ==
    /\ UNCHANGED <<output_vars, dup_vars>>
    /\ status = "running" /\ source_ # << >>
    /\ Head(source_).first = eof_packet(index_)
    /\ source_' = Tail(source_)
    /\ target_' = run_exit(target_)
    /\ status' = "done"
    /\ UNCHANGED <<held, cap_delay, handle, logged, ncalls, offered, flushed>>

\* the owner starts destroying the handle: ~implementation calls agent::wait
DestroyBegin ==
    /\ UNCHANGED <<output_vars, dup_vars>>
    /\ handle = "alive"
    /\ handle' = "waiting"
    /\ UNCHANGED <<source_, target_, held, cap_delay, status, logged, ncalls,
                   offered, flushed>>

\* agent::wait returns and the members are destroyed
DestroyEnd ==
    /\ UNCHANGED <<output_vars, dup_vars>>
    /\ handle = "waiting"
    /\ agent_wait
    /\ handle' = "destroyed"
    /\ UNCHANGED <<source_, target_, held, cap_delay, status, logged, ncalls,
                   offered, flushed>>

Run == RunFrame \/ RunNoFrame \/ RunThrow \/ RunLoop \/ RunLoopThrow \/ RunEof

(***************************************************************************)
(* The duplication of a decoded frame (dup_frame).                         *)
(***************************************************************************)
\* the AVFrames: decode allocates one per call (avcodec_alloc_frame), and an
\* earlier one lives for as long as it is held downstream
FrameIds == {1, 2}
\* the blocks the allocator hands out
Blocks == 1..(Cardinality(FrameIds) * MaxPlanes)
\* desc.planes.size(): the planes of a pixel format
PlaneCounts == 1..MaxPlanes
\* how far into its block a copy begins: the misalignment of the codec's
\* buffer, which the planes of one frame share
Offsets == {0, 8}

\* a pointer is <<block, offset>>; block 0 is memory of the codec. The pointer
\* the codec left in frame->data[n]:
decoder_buffer(f, n) == <<0, MaxPlanes * f + n>>

\* no AVFrame
no_avframe ==
    [status |-> "none", data |-> << >>, org_ptrs |-> << >>, real_ptrs |-> << >>,
     use_count |-> 0, deleted |-> 0]

\* scalable_aligned_malloc(size+16, 32): a block that is not allocated, the
\* lowest one
scalable_aligned_malloc(allocated) ==
    CHOOSE b \in Blocks :
       b \notin allocated /\ \A c \in Blocks : c < b => c \in allocated

\* the blocks of real_ptrs[1..count], allocated one after the other
RECURSIVE allocate(_, _)
allocate(allocated, count) ==
    IF count = 0 THEN << >>
    ELSE LET b == scalable_aligned_malloc(allocated) IN
            <<b>> \o allocate(allocated \cup {b}, count - 1)

\* fast_memcpy_w_align_hack(real_ptrs[n], org_ptrs[n], size): the copy begins
\* offset bytes into the block, and that address is returned
fast_memcpy_w_align_hack(dest, offset) == <<dest[1], dest[2] + offset>>

\* a faulty variant: the deleter frees what frame->data[n] points to
freed_data(real_ptr, data_ptr) == data_ptr
\* the pointer the deleter gives to scalable_aligned_free: real_ptrs[n]
freed(real_ptr, data_ptr) == real_ptr

\* scalable_aligned_free(ptr) takes the start of an allocated block
valid_free(allocated, ptr) == ptr[2] = 0 /\ ptr[1] \in allocated

\* the deleter's loop over the planes n..count: <<the blocks still allocated,
\* whether every free was a valid one>>
RECURSIVE delete_planes(_, _, _)
delete_planes(allocated, frame, n) ==
    IF n > Len(frame.real_ptrs) THEN <<allocated, TRUE>>
    ELSE LET ptr == freed(frame.real_ptrs[n], frame.data[n])
             rest == delete_planes(IF valid_free(allocated, ptr)
                                   THEN allocated \ {ptr[1]} ELSE allocated,
                                   frame, n + 1) IN
            <<rest[1], rest[2] /\ valid_free(allocated, ptr)>>

DupInit ==
    /\ frames = [f \in FrameIds |-> no_avframe]
    /\ heap = {}
    /\ invalid_free = FALSE

\* decode returns a frame in a new AVFrame and run passes it to dup_frame:
\* every plane gets a block, is copied into it, and frame->data[n] is pointed
\* at the copy; the duplicated safe_ptr has one holder
DupFrame(f, count, offset) ==
    /\ frames[f].status = "none"
    /\ LET org == [n \in 1..count |-> decoder_buffer(f, n)]
           blocks == allocate(heap, count)
           real == [n \in 1..count |-> <<blocks[n], 0>>] IN
          /\ frames' = [frames EXCEPT ![f] =
                          [status |-> "held",
                           data |-> [n \in 1..count |->
                                       fast_memcpy_w_align_hack(real[n], offset)],
                           org_ptrs |-> org,
                           real_ptrs |-> real,
                           use_count |-> 1,
                           deleted |-> 0]]
          /\ heap' = heap \cup {blocks[n] : n \in 1..count}
    /\ UNCHANGED invalid_free
    /\ UNCHANGED <<decoder_vars, output_vars>>

\* a holder copies the duplicated safe_ptr
Copy(f) ==
    /\ frames[f].status = "held"
    /\ frames[f].use_count < MaxHolders
    /\ frames' = [frames EXCEPT ![f].use_count = @ + 1]
    /\ UNCHANGED <<heap, invalid_free>>
    /\ UNCHANGED <<decoder_vars, output_vars>>

\* a holder lets go of the duplicated safe_ptr; the last one runs the deleter:
\* scalable_aligned_free(real_ptrs[n]) and frame->data[n] = org_ptrs[n] for
\* every plane
Reset(f) ==
    /\ frames[f].status = "held"
    /\ IF frames[f].use_count > 1
       THEN /\ frames' = [frames EXCEPT ![f].use_count = @ - 1]
            /\ UNCHANGED <<heap, invalid_free>>
       ELSE LET done == delete_planes(heap, frames[f], 1) IN
               /\ frames' = [frames EXCEPT ![f] =
                               [status |-> "released",
                                data |-> frames[f].org_ptrs,
                                org_ptrs |-> frames[f].org_ptrs,
                                real_ptrs |-> << >>,
                                use_count |-> 0,
                                deleted |-> frames[f].deleted + 1]]
               /\ heap' = done[1]
               /\ invalid_free' = (invalid_free \/ ~done[2])
    /\ UNCHANGED <<decoder_vars, output_vars>>

\* the deleter is destroyed and with it the last safe_ptr to the AVFrame, which
\* av_free frees
Free(f) ==
    /\ frames[f].status = "released"
    /\ frames' = [frames EXCEPT ![f] = no_avframe]
    /\ UNCHANGED <<heap, invalid_free>>
    /\ UNCHANGED <<decoder_vars, output_vars>>

DupNext ==
    \/ \E f \in FrameIds, count \in PlaneCounts, offset \in Offsets :
          DupFrame(f, count, offset)
    \/ \E f \in FrameIds : Copy(f)
    \/ \E f \in FrameIds : Reset(f)
    \/ \E f \in FrameIds : Free(f)

(***************************************************************************)
(* The output dispatcher.                                                  *)
(***************************************************************************)
\* the video formats a channel is switched between: two of one frame size
\* and one of another
Formats == {"1080i50", "1080p50", "720p50"}
\* video_format_desc::size: the bytes of one frame
size(format) ==
    CASE format = "1080i50" -> 8294400
      [] format = "1080p50" -> 8294400
      [] format = "720p50" -> 3686400
\* video_format_desc::fps
fps(format) ==
    CASE format = "1080i50" -> 25
      [] format = "1080p50" -> 50
      [] format = "720p50" -> 50
\* std::chrono::microseconds(static_cast<int>(1e6 / format_desc_.fps))
period(format) == 1000000 \div fps(format)

\* the consumer objects the callers hold; a and d have the same index
Consumers == {"a", "b", "c", "d"}
\* frame_consumer::index: the index a consumer registers under
consumer_index(consumer) ==
    CASE consumer = "a" -> 1
      [] consumer = "b" -> 2
      [] consumer = "c" -> 3
      [] consumer = "d" -> 1
Indices == {consumer_index(consumer) : consumer \in Consumers}
\* no consumer under an index
null == "null"
\* consumers_.end()
End == 0
\* an empty const_frame (operator bool is false)
no_frame == 0
FrameSizes == {no_frame} \cup {size(f) : f \in Formats}
\* boost::none
no_time == -1
\* no format: the arguments of a call that is not under way
no_format == "none"
\* the driver thread and the threads that call add and remove
Driver == "driver"
Callers == {"t1", "t2"}

\* the time the driver lets pass between two calls: less and more than a period
Delays == {10000, 30000}

\* frame_consumer::has_synchronization_clock
has_synchronization_clock(consumer) == consumer = "c"
\* frame_consumer::state: the consumer's diagnostic snapshot
consumer_state(consumer) == <<"state", consumer>>
\* "port/" + boost::lexical_cast<std::string>(index)
port(index) == <<"port/", index>>

\* the registry with nothing registered
no_consumers == [i \in Indices |-> null]
\* the keys of a registry or of a map of futures
keys(map, none) == {i \in Indices : map[i] # none}
\* the first key after k, or End: ++it on a std::map
next_key(ks, k) ==
    IF \E i \in ks : i > k THEN CHOOSE i \in ks : i > k /\ \A j \in ks : j > k => i <= j
    ELSE End
\* consumers_.begin()
begin(ks) == next_key(ks, 0)
\* it->second: the consumer in the node that an iterator at k points to
node(map, k) == IF k = End THEN null ELSE map[k]
\* a faulty variant: the entry is left in the map
erase_nothing(map, index) == map
\* consumers_.erase(index)
erase(map, index) == [map EXCEPT ![index] = null]

\* consumers_.emplace(index, consumer): an index that is taken keeps its consumer
emplace(map, index, consumer) ==
    IF map[index] = null THEN [map EXCEPT ![index] = consumer] ELSE map

\* a faulty variant: the size of the frame is not looked at
invalid_size_never(frame) == FALSE
\* input_frame.size() != format_desc_.size
invalid_size(frame) == frame # size(format_desc_)

\* a faulty variant: the deadline survives the change of format
time_kept(t) == t
\* time_ once a changed format has been taken over (time_ = boost::none)
time_after_format_change(t) == no_time

\* a faulty variant: a future that yields false does not evict
evicts_on_error_only(result) == result = "throw"
\* whether the result a future yields evicts the consumer: false or an exception
evicts(result) == result # "true"

\* a faulty variant: a send that throws ends the loop
stop_after_throw(ks, k) == End
\* where the first loop goes on after a send that threw: it = consumers_.erase(it)
after_throw(ks, k) == next_key(ks, k)

\* a faulty variant: the entries of the last tick are kept
state_not_cleared(state) == state
\* state_.clear()
state_clear(state) == {}

\* needs_sync: no consumer left in the registry has a synchronization clock
needs_sync(registry) ==
    \A i \in keys(registry, null) : ~has_synchronization_clock(registry[i])

\* a faulty variant: the wait is skipped
sleep_never(clock, deadline) == clock
\* boost::this_thread::sleep_until(deadline): the clock when the wait ends; a
\* deadline in the past does not wait
sleep_until(clock, deadline) == IF clock < deadline THEN deadline ELSE clock

\* catch (...) around initialize, send and get: nothing a consumer throws leaves
\* operator()
catch_all == TRUE

\* a caller outside add: no index, no consumer, no format passed to initialize
no_args == <<End, null, no_format>>

\* one entry of calls: the call, its outcome, and who holds consumers_mutex_
\* while the consumer runs it
call(op, index, consumer, arg, result) ==
    [op |-> op, index |-> index, consumer |-> consumer, arg |-> arg, result |-> result,
     mutex |-> consumers_mutex_]

OutputInit ==
    /\ format_desc_ \in Formats
    /\ consumers_ = no_consumers
    /\ consumers_mutex_ = "free"
    /\ time_ = no_time
    /\ state_ = {}
    /\ pc = "idle"
    /\ tick = "none"
    /\ input_frame = no_frame
    /\ format_desc = no_format
    /\ time = no_time
    /\ consumers = no_consumers
    /\ futures = [i \in Indices |-> "none"]
    /\ it = End
    /\ p = End
    /\ entry = no_consumers
    /\ calls = << >>
    /\ it_node = null
    /\ last_tick = no_time
    /\ cpc = [t \in Callers |-> "idle"]
    /\ cargs = [t \in Callers |-> no_args]
    /\ now = 0

caller_vars == <<cpc, cargs>>
driver_locals == <<input_frame, format_desc, time, consumers, futures, it, p, entry>>

\* operator(): the call, up to the point where it returns early (an empty frame,
\* a frame of the wrong size) or has moved time_ into time and compared formats.
\* auto time = std::move(time_) leaves time_ as it is: a boost::optional that was
\* moved from stays engaged, and a moved-from time_point keeps its value
Begin(frame, format) ==
    /\ pc = "idle"
    /\ now <= MaxNow * 10000
    /\ input_frame' = frame
    /\ format_desc' = format
    /\ entry' = consumers_
    /\ calls' = << >>
    /\ IF frame = no_frame
       THEN pc' = "done" /\ tick' = "empty" /\ time' = no_time
       ELSE IF invalid_size(frame)
       THEN pc' = "done" /\ tick' = "invalid" /\ time' = no_time
       ELSE /\ time' = time_
            /\ IF format_desc_ # format
               THEN pc' = "format_lock" /\ tick' = "format"
               ELSE pc' = "snapshot" /\ tick' = "deliver"
    /\ UNCHANGED <<format_desc_, consumers_, consumers_mutex_, time_, state_,
                   consumers, futures, it, p, caller_vars, now>>
    /\ UNCHANGED <<it_node, last_tick, wanted>>
    /\ UNCHANGED <<decoder_vars, dup_vars>>

\* the changed format: lock_guard lock(consumers_mutex_); it = consumers_.begin()
FormatLock ==
    /\ pc = "format_lock"
    /\ consumers_mutex_ = "free"
    /\ consumers_mutex_' = Driver
    /\ it' = begin(keys(consumers_, null))
    /\ pc' = "format_loop"
    /\ UNCHANGED <<format_desc_, consumers_, time_, state_, tick, input_frame,
                   format_desc, time, consumers, futures, p, entry, calls, caller_vars, now>>
    /\ UNCHANGED <<it_node, last_tick, wanted>>
    /\ UNCHANGED <<decoder_vars, dup_vars>>

\* the changed format: initialize(format_desc, it->first) on the consumer under
\* it; one that throws is erased
FormatInitialize ==
    /\ pc = "format_loop"
    /\ it # End
    /\ LET consumer == consumers_[it] IN
          \E result \in {"ok", "throw"} :
             /\ calls' = Append(calls, call("initialize", it, consumer, format_desc, result))
             /\ IF result = "ok"
                THEN consumers_' = consumers_ /\ pc' = "format_loop"
                ELSE IF catch_all
                THEN consumers_' = erase(consumers_, it) /\ pc' = "format_loop"
                ELSE consumers_' = consumers_ /\ pc' = "escaped"
    /\ it' = next_key(keys(consumers_, null), it)
    /\ UNCHANGED <<format_desc_, consumers_mutex_, time_, state_, tick, input_frame,
                   format_desc, time, consumers, futures, p, entry, caller_vars, now>>
    /\ UNCHANGED <<it_node, last_tick, wanted>>
    /\ UNCHANGED <<decoder_vars, dup_vars>>

\* the changed format: format_desc_ = format_desc; time_ = boost::none; return
FormatDone ==
    /\ pc = "format_loop"
    /\ it = End
    /\ format_desc_' = format_desc
    /\ time_' = time_after_format_change(time_)
    /\ consumers_mutex_' = "free"
    /\ pc' = "done"
    /\ last_tick' = no_time
    /\ UNCHANGED <<consumers_, state_, tick, input_frame, format_desc, time, consumers,
                   futures, it, p, entry, calls, caller_vars, now>>
    /\ UNCHANGED <<it_node, wanted>>
    /\ UNCHANGED <<decoder_vars, dup_vars>>

\* the delivery: consumers = consumers_ under the lock
Snapshot ==
    /\ pc = "snapshot"
    /\ consumers_mutex_ = "free"
    /\ consumers' = consumers_
    /\ futures' = [i \in Indices |-> "none"]
    /\ pc' = "send_begin"
    /\ UNCHANGED <<format_desc_, consumers_, consumers_mutex_, time_, state_, tick,
                   input_frame, format_desc, time, it, p, entry, calls, caller_vars, now>>
    /\ UNCHANGED <<it_node, last_tick, wanted>>
    /\ UNCHANGED <<decoder_vars, dup_vars>>

\* the delivery: it = consumers_.begin(), on the registry itself
SendBegin ==
    /\ pc = "send_begin"
    /\ it' = begin(keys(consumers_, null))
    /\ it_node' = node(consumers_, it')
    /\ pc' = "send_loop"
    /\ UNCHANGED <<format_desc_, consumers_, consumers_mutex_, time_, state_, tick,
                   input_frame, format_desc, time, consumers, futures, p, entry, calls,
                   caller_vars, now>>
    /\ UNCHANGED <<last_tick, wanted>>
    /\ UNCHANGED <<decoder_vars, dup_vars>>

\* the delivery: send(input_frame) on the consumer under it: it throws and the
\* consumer is erased, or it returns a future that will yield true, false or an
\* exception. The node under it is the one it was moved to, or, after another
\* thread erased that one and inserted under the same index, the new node in
\* the old one's place
Send ==
    /\ pc = "send_loop"
    /\ it # End
    /\ consumers_[it] # null
    /\ LET consumer == consumers_[it]
           ks == keys(consumers_, null) IN
          \E result \in {"throw", "future"} :
             /\ calls' = Append(calls, call("send", it, consumer, input_frame, result))
             /\ IF result = "future"
                THEN /\ \E yields \in {"true", "false", "throw"} :
                           futures' = [futures EXCEPT ![it] = yields]
                     /\ it' = next_key(ks, it)
                     /\ consumers_' = consumers_
                     /\ pc' = "send_loop"
                ELSE IF catch_all
                THEN /\ consumers_' = erase(consumers_, it)
                     /\ it' = after_throw(ks, it)
                     /\ futures' = futures
                     /\ pc' = "send_loop"
                ELSE /\ pc' = "escaped"
                     /\ UNCHANGED <<consumers_, it, futures>>
    /\ it_node' = node(consumers_', it')
    /\ UNCHANGED <<format_desc_, consumers_mutex_, time_, state_, tick, input_frame,
                   format_desc, time, consumers, p, entry, caller_vars, now>>
    /\ UNCHANGED <<last_tick, wanted>>
    /\ UNCHANGED <<decoder_vars, dup_vars>>

\* the program has left defined behaviour: pc is "undefined" from here on, no
\* thread takes another step, and the other variables, which mean nothing any
\* more, are put back as constructed
Undefined ==
    /\ pc' = "undefined"
    /\ format_desc_' = format_desc_
    /\ consumers_' = no_consumers
    /\ consumers_mutex_' = "free"
    /\ time_' = no_time
    /\ state_' = {}
    /\ tick' = "none"
    /\ input_frame' = no_frame
    /\ format_desc' = no_format
    /\ time' = no_time
    /\ consumers' = no_consumers
    /\ futures' = [i \in Indices |-> "none"]
    /\ it' = End
    /\ p' = End
    /\ entry' = no_consumers
    /\ calls' = << >>
    /\ it_node' = null
    /\ last_tick' = no_time
    /\ cpc' = [t \in Callers |-> "undefined"]
    /\ cargs' = [t \in Callers |-> no_args]
    /\ now' = 0
    /\ UNCHANGED wanted
    /\ UNCHANGED <<decoder_vars, dup_vars>>

\* the delivery: the node under it was erased by another thread and none took
\* its place: it dangles, and what it->second and ++it do is undefined
SendDangling ==
    /\ pc = "send_loop"
    /\ it # End
    /\ it_node # consumers_[it]
    /\ Undefined

\* the delivery: the first loop is over; for (auto& p : futures) begins
GetBegin ==
    /\ pc = "send_loop"
    /\ it = End
    /\ p' = begin(keys(futures, "none"))
    /\ pc' = "get_loop"
    /\ UNCHANGED <<format_desc_, consumers_, consumers_mutex_, time_, state_, tick,
                   input_frame, format_desc, time, consumers, futures, it, entry, calls,
                   caller_vars, now>>
    /\ UNCHANGED <<it_node, last_tick, wanted>>
    /\ UNCHANGED <<decoder_vars, dup_vars>>

\* the delivery: p.second.get(); a consumer whose future yields false or an
\* exception is erased by its index
Get ==
    /\ pc = "get_loop"
    /\ p # End
    /\ calls' = Append(calls, call("get", p, consumers[p], input_frame, futures[p]))
    /\ IF futures[p] = "throw" /\ ~catch_all
       THEN pc' = "escaped" /\ UNCHANGED <<consumers_, p>>
       ELSE /\ consumers_' = IF evicts(futures[p]) THEN erase(consumers_, p)
                             ELSE consumers_
            /\ p' = next_key(keys(futures, "none"), p)
            /\ pc' = "get_loop"
    /\ UNCHANGED <<format_desc_, consumers_mutex_, time_, state_, tick, input_frame,
                   format_desc, time, consumers, futures, it, entry, caller_vars, now>>
    /\ UNCHANGED <<it_node, last_tick, wanted>>
    /\ UNCHANGED <<decoder_vars, dup_vars>>

\* the delivery: state_.clear() and an entry "port/<index>" for every consumer
\* of consumers_
State ==
    /\ pc = "get_loop"
    /\ p = End
    /\ state_' = {e \in state_clear(state_) :
                     \A i \in keys(consumers_, null) : e[1] # port(i)}
                 \cup {<<port(i), consumer_state(consumers_[i])>> :
                          i \in keys(consumers_, null)}
    /\ pc' = "pace"
    /\ UNCHANGED <<format_desc_, consumers_, consumers_mutex_, time_, tick, input_frame,
                   format_desc, time, consumers, futures, it, p, entry, calls, caller_vars, now>>
    /\ UNCHANGED <<it_node, last_tick, wanted>>
    /\ UNCHANGED <<decoder_vars, dup_vars>>

\* the delivery: with no consumer that has a synchronization clock, wait for
\* the deadline (or start from now) and set the next one
Pace ==
    /\ pc = "pace"
    /\ LET start == IF time = no_time THEN now ELSE time IN
          IF needs_sync(consumers_)
          THEN /\ time' = start
               /\ now' = sleep_until(now, start)
               /\ time_' = start + period(format_desc_)
               /\ last_tick' = now'
          ELSE /\ UNCHANGED <<time, now, time_>>
               /\ last_tick' = no_time
    /\ pc' = "done"
    /\ UNCHANGED <<format_desc_, consumers_, consumers_mutex_, state_, tick, input_frame,
                   format_desc, consumers, futures, it, p, entry, calls, caller_vars>>
    /\ UNCHANGED <<it_node, wanted>>
    /\ UNCHANGED <<decoder_vars, dup_vars>>

\* operator() returns to the driver
Return ==
    /\ pc = "done"
    /\ pc' = "idle"
    /\ tick' = "none"
    /\ input_frame' = no_frame
    /\ format_desc' = no_format
    /\ time' = no_time
    /\ consumers' = no_consumers
    /\ futures' = [i \in Indices |-> "none"]
    /\ it' = End
    /\ p' = End
    /\ entry' = no_consumers
    /\ calls' = << >>
    /\ it_node' = null
    /\ UNCHANGED <<format_desc_, consumers_, consumers_mutex_, time_, state_, caller_vars, now>>
    /\ UNCHANGED <<last_tick, wanted>>
    /\ UNCHANGED <<decoder_vars, dup_vars>>

\* add(consumer) is add(consumer->index(), consumer), which begins with
\* remove(index), under the lock
AddRemove(t, consumer) ==
    /\ cpc[t] = "idle"
    /\ consumers_mutex_ = "free"
    /\ consumers_' = erase(consumers_, consumer_index(consumer))
    /\ cpc' = [cpc EXCEPT ![t] = "add_init"]
    /\ cargs' = [cargs EXCEPT ![t] = <<consumer_index(consumer), consumer, no_format>>]
    /\ UNCHANGED <<format_desc_, consumers_mutex_, time_, state_, pc, tick,
                   driver_locals, calls, now>>
    /\ UNCHANGED <<it_node, last_tick, wanted>>
    /\ UNCHANGED <<decoder_vars, dup_vars>>

\* add: consumer->initialize(format_desc_, channel_index_), outside the lock; if
\* it throws, add is left with the exception
AddInitialize(t) ==
    /\ cpc[t] = "add_init"
    /\ \/ /\ cpc' = [cpc EXCEPT ![t] = "add_insert"]
          /\ cargs' = [cargs EXCEPT ![t][3] = format_desc_]
       \/ cpc' = [cpc EXCEPT ![t] = "idle"] /\ cargs' = [cargs EXCEPT ![t] = no_args]
    /\ UNCHANGED <<format_desc_, consumers_, consumers_mutex_, time_, state_, pc, tick,
                   driver_locals, calls, now>>
    /\ UNCHANGED <<it_node, last_tick, wanted>>
    /\ UNCHANGED <<decoder_vars, dup_vars>>

\* add: consumers_.emplace(index, consumer) under the lock; emplace leaves an
\* index that is taken as it is
AddInsert(t) ==
    /\ cpc[t] = "add_insert"
    /\ consumers_mutex_ = "free"
    /\ consumers_' = emplace(consumers_, cargs[t][1], cargs[t][2])
    /\ cpc' = [cpc EXCEPT ![t] = "idle"]
    /\ cargs' = [cargs EXCEPT ![t] = no_args]
    /\ UNCHANGED <<format_desc_, consumers_mutex_, time_, state_, pc, tick,
                   driver_locals, calls, now>>
    /\ UNCHANGED <<it_node, last_tick, wanted>>
    /\ UNCHANGED <<decoder_vars, dup_vars>>

\* remove(index), under the lock
Remove(t, index) ==
    /\ cpc[t] = "idle"
    /\ consumers_mutex_ = "free"
    /\ consumers_' = erase(consumers_, index)
    /\ UNCHANGED <<format_desc_, consumers_mutex_, time_, state_, pc, tick,
                   driver_locals, calls, caller_vars, now>>
    /\ UNCHANGED <<it_node, last_tick, wanted>>
    /\ UNCHANGED <<decoder_vars, dup_vars>>

\* time passes on the driver thread between two calls of operator()
Advance(d) ==
    /\ pc = "idle"
    /\ now + d <= MaxNow * 10000
    /\ now' = now + d
    /\ UNCHANGED <<format_desc_, consumers_, consumers_mutex_, time_, state_, pc, tick,
                   driver_locals, calls, caller_vars>>
    /\ UNCHANGED <<it_node, last_tick, wanted>>
    /\ UNCHANGED <<decoder_vars, dup_vars>>

\* the driver's next step reads or erases consumers_ with consumers_mutex_
\* neither held nor taken: begin(), the loop test, it->second and erase(it) of
\* the first loop, erase(p.first) of the second, the loop over consumers_ that
\* fills state_, and std::all_of over consumers_
unlocked_access ==
    \/ pc \in {"send_begin", "send_loop", "pace"}
    \/ pc = "get_loop" /\ (IF p = End THEN TRUE ELSE evicts(futures[p]))

\* a data race on consumers_: the driver's unlocked access overlaps the find,
\* erase or emplace that caller t does under the lock. What a std::map does
\* then is undefined
Race(t) ==
    /\ unlocked_access
    /\ cpc[t] \in {"idle", "add_insert"}
    /\ Undefined

\* no caller is inside add
CallersIdle == \A t \in Callers : cpc[t] = "idle"

\* the dispatcher used from one thread at a time: the driver calls operator()
\* once per tick, and add and remove are called between two ticks
OutputNext ==
    \/ \E frame \in FrameSizes, format \in Formats : CallersIdle /\ Begin(frame, format)
    \/ FormatLock
    \/ FormatInitialize
    \/ FormatDone
    \/ Snapshot
    \/ SendBegin
    \/ Send
    \/ GetBegin
    \/ Get
    \/ State
    \/ Pace
    \/ Return
    \/ \E consumer \in Consumers : pc = "idle" /\ AddRemove("t1", consumer)
    \/ AddInitialize("t1")
    \/ AddInsert("t1")
    \/ \E i \in Indices : pc = "idle" /\ Remove("t1", i)
    \/ \E d \in Delays : Advance(d)

\* the consumers that are added and removed while a delivery is under way
ConcConsumers == {"a", "d"}

\* the dispatcher used from several threads: the driver delivers frames of the
\* current format while two other threads call add and remove at any time, each
\* add with a consumer that no other add is under way for
ConcNext ==
    \/ Begin(size(format_desc_), format_desc_)
    \/ Snapshot
    \/ SendBegin
    \/ Send
    \/ SendDangling
    \/ GetBegin
    \/ Get
    \/ State
    \/ Pace
    \/ Return
    \/ \E t \in Callers, consumer \in ConcConsumers :
          /\ pc # "undefined"
          /\ \A u \in Callers : cargs[u][2] # consumer
          /\ AddRemove(t, consumer)
    \/ \E t \in Callers : pc # "undefined" /\ AddInitialize(t)
    \/ \E t \in Callers : pc # "undefined" /\ AddInsert(t)
    \/ \E t \in Callers, consumer \in ConcConsumers :
          pc # "undefined" /\ Remove(t, consumer_index(consumer))
    \/ \E t \in Callers : Race(t)

(***************************************************************************)
(* The specifications.                                                     *)
(***************************************************************************)
\* each part is specified with the other one left as constructed
DecoderStart ==
    DecoderInit /\ DupInit /\ OutputInit /\ format_desc_ = "1080i50" /\ wanted = no_format
OutputStart == OutputInit /\ DupInit /\ DecoderInit /\ ~cap_delay /\ wanted = no_format
DupStart == DupInit /\ DecoderInit /\ ~cap_delay /\ OutputInit
            /\ format_desc_ = "1080i50" /\ wanted = no_format

DecoderNext == Offer \/ Run \/ DestroyBegin \/ DestroyEnd

DecoderSpec == DecoderStart /\ [][DecoderNext]_vars

\* the agent is scheduled whenever it can take a step, and a wait that can
\* return does return
DecoderFairSpec ==
    DecoderSpec /\ WF_vars(Run) /\ WF_vars(DestroyEnd)

DupSpec == DupStart /\ [][DupNext]_vars

OutputSpec == OutputStart /\ [][OutputNext]_vars

ConcStart == OutputStart /\ format_desc_ = "1080p50"

\* the registries that add and remove can have left behind
Registries ==
    {registry \in [Indices -> Consumers \cup {null}] :
        \A i \in Indices : registry[i] # null => consumer_index(registry[i]) = i}

\* the channel is switched to the format wanted: from now on the driver calls
\* operator() with that format and with frames of its size, and goes on doing so
SwitchStart ==
    /\ DecoderInit /\ ~cap_delay
    /\ DupInit
    /\ wanted \in Formats
    /\ format_desc_ \in Formats
    /\ consumers_ \in Registries
    /\ consumers_mutex_ = "free"
    /\ time_ = no_time
    /\ state_ = {}
    /\ pc = "idle"
    /\ tick = "none"
    /\ input_frame = no_frame
    /\ format_desc = no_format
    /\ time = no_time
    /\ consumers = no_consumers
    /\ futures = [i \in Indices |-> "none"]
    /\ it = End
    /\ p = End
    /\ entry = no_consumers
    /\ calls = << >>
    /\ it_node = null
    /\ last_tick = no_time
    /\ cpc = [t \in Callers |-> "idle"]
    /\ cargs = [t \in Callers |-> no_args]
    /\ now = 0

SwitchNext ==
    \/ Begin(size(wanted), wanted)
    \/ FormatLock
    \/ FormatInitialize
    \/ FormatDone
    \/ Snapshot
    \/ SendBegin
    \/ Send
    \/ GetBegin
    \/ Get
    \/ State
    \/ Pace
    \/ Return

\* the driver thread is scheduled: a call that can be made is made, and a call
\* under way goes on
SwitchSpec == SwitchStart /\ [][SwitchNext]_vars /\ WF_vars(SwitchNext)

ConcSpec == ConcStart /\ [][ConcNext]_vars

(***************************************************************************)
(* Properties of the decode worker.                                        *)
(***************************************************************************)
\* the positions of the eof markers among what was sent
EofPositions == {i \in DOMAIN target_ : target_[i].kind = "eof"}
\* the worker takes the element at the head of source_ in this step
Receives == status = "running" /\ source_ # << >> /\ source_' = Tail(source_)
\* the markers sent in this step
NewMarkers == {target_'[i] : i \in (Len(target_) + 1)..Len(target_')}
\* an eof packet of this stream waits in the channel
EofPending == \E i \in DOMAIN source_ : source_[i].first = eof_packet(index_)

\* C1: a worker that has left its loop (by the eof packet, or by a decode
\* failure on a data packet or during a loop flush) has sent exactly one eof
\* marker and it is the last thing it ever sends; a worker still in its loop
\* has sent none.
C1_OneEofLast ==
    EofPositions = IF status = "done" THEN {Len(target_)} ELSE {}

\* C1 witness: a worker that left the loop by a decode failure during a loop
\* flush, after having sent frames.
C1_Witness ==
    /\ status = "done" /\ logged = 1 /\ flushed >= 1
    /\ Len(target_) >= 2 /\ target_[Len(target_)].kind = "eof"

\* C2 as stated: with a codec that has the delay capability, every loop packet
\* the worker receives makes it send the frames the codec holds, then exactly
\* one loop marker, and the worker is still running afterwards.
C2_Original ==
    [][(Receives /\ cap_delay /\ Head(source_).first = loop_packet(index_))
        => /\ target_' = Append(target_ \o flush_frames(held, Head(source_)),
                                [kind |-> "loop", ticket |-> ticket_t])
           /\ status' = "running"
           /\ EofPositions' = {}]_vars

\* C2 amended: the same, unless one of the draining decode calls fails (the
\* failure is logged); then the worker sends the frames drained so far and the
\* eof marker instead of the loop marker, and is done.
C2_LoopFlush ==
    [][(Receives /\ cap_delay /\ Head(source_).first = loop_packet(index_))
        => IF logged' = logged
           THEN /\ Len(target_') = Len(target_) + held + 1
                /\ SubSeq(target_', 1, Len(target_)) = target_
                /\ \A i \in (Len(target_) + 1)..(Len(target_) + held) :
                      target_'[i].kind = "frame"
                /\ target_'[Len(target_')].kind = "loop"
                /\ status' = "running"
                /\ EofPositions' = {}
           ELSE /\ status' = "done"
                /\ target_'[Len(target_')].kind = "eof"
                /\ \A m \in NewMarkers : m.kind # "loop"]_vars

\* C2 witness: a loop flush that sent the held frame and the loop marker, after
\* which the worker went on to receive a further packet.
C2_Witness ==
    /\ cap_delay /\ status = "running" /\ flushed = 1 /\ logged = 0
    /\ \E i \in DOMAIN target_ :
          /\ i >= 2 /\ i < Len(target_)
          /\ target_[i].kind = "loop" /\ target_[i - 1].kind = "frame"
          /\ target_[i - 1].ticket # target_[i + 1].ticket

\* C3 as stated: every frame marker and every loop marker carries the ticket of
\* the element that caused it.
C3_Original ==
    [][Receives => \A m \in NewMarkers :
                      m.kind \in {"frame", "loop"} => m.ticket = Head(source_).second]_vars

\* C3 amended: every frame marker (decoded from a data packet or drained by a
\* loop packet) carries the ticket of the element that caused it; the loop
\* marker carries a default-constructed ticket, not the loop packet's.
C3_Tickets ==
    [][Receives => \A m \in NewMarkers :
                      /\ m.kind = "frame" => m.ticket = Head(source_).second
                      /\ m.kind = "loop" => m.ticket = ticket_t]_vars

\* C3 witness: frames of a data packet and of a loop flush and a loop marker
\* have been sent, the frames with different tickets.
C3_Witness ==
    /\ flushed >= 1
    /\ \E i, j, k \in DOMAIN target_ :
          /\ i < j /\ j < k
          /\ target_[i].kind = "frame" /\ target_[j].kind = "frame"
          /\ target_[i].ticket # target_[j].ticket
          /\ target_[k].kind = "loop"

\* C4: the destruction of the handle returns only once the worker is done;
\* nothing but the eof packet of its stream (or a decode failure) ends the
\* worker; once an eof packet of its stream is in the channel the worker
\* becomes done and a destruction under way completes; and after the
\* destruction has returned the worker makes no decode call and sends nothing.
C4_DestroyJoins ==
    /\ [](handle = "destroyed" => status = "done")
    /\ [][(status = "running" /\ status' = "done")
            => /\ Receives
               /\ Head(source_).first = eof_packet(index_) \/ logged' = logged + 1]_vars
    /\ [][handle = "destroyed" => (target_' = target_ /\ ncalls' = ncalls)]_vars
    /\ EofPending ~> (status = "done")
    /\ (EofPending /\ handle = "waiting") ~> (handle = "destroyed")

\* C4 witness: a handle destroyed after its worker decoded packets and was
\* ended by the eof packet.
C4_Witness ==
    /\ handle = "destroyed" /\ logged = 0 /\ ncalls >= 1
    /\ target_ # << >> /\ target_[Len(target_)].kind = "eof"

(***************************************************************************)
(* Properties of the output dispatcher.                                    *)
(***************************************************************************)
\* the indices under which a consumer is registered in a registry
Registered(registry) == keys(registry, null)
\* the positions in calls of the calls of op on the consumer under index i
CallsOf(op, i) == {k \in DOMAIN calls : calls[k].op = op /\ calls[k].index = i}
\* the consumer under index i failed: its send threw, or its future yielded
\* false or an exception
Failed(i) == \E k \in DOMAIN calls :
                /\ calls[k].index = i
                /\ calls[k].op \in {"send", "get"}
                /\ calls[k].result \in {"throw", "false"}
\* a call of operator() is about to return
Returning(kind) == pc = "done" /\ tick = kind

\* C5: a call of dispatch with a frame whose size is not the current format's
\* returns at once: it calls send on no consumer and leaves the registry, the
\* current format, the pacing deadline and the aggregated state as they were.
C5_InvalidSizeDropped ==
    /\ [][(pc = "idle" /\ pc' # "idle"
              /\ input_frame' # no_frame /\ input_frame' # size(format_desc_))
           => /\ pc' = "done"
              /\ calls' = << >>
              /\ UNCHANGED <<consumers_, format_desc_, time_, state_>>]_vars
    /\ [][Returning("invalid")
           => /\ calls' = << >>
              /\ UNCHANGED <<consumers_, format_desc_, time_, state_>>]_vars

\* C5 witness: a frame of the wrong size dropped by a dispatcher that has
\* consumers, a deadline and an aggregated state.
C5_Witness ==
    /\ Returning("invalid")
    /\ input_frame # size(format_desc_)
    /\ Registered(consumers_) # {} /\ time_ # no_time /\ state_ # {}

\* C6 as stated: whenever dispatch is called with a format that is not the
\* current one, that call calls initialize with the new format on every
\* registered consumer.
C6_Original ==
    (pc = "done" /\ (tick = "format" \/ format_desc # format_desc_))
        => \A i \in Registered(entry) :
              \E k \in CallsOf("initialize", i) : calls[k].arg = format_desc

\* C6 amended: when dispatch is called with a frame that is not empty and has
\* the size of the current format, and with a format that is not the current
\* one, then initialize is called once with the new format on every registered
\* consumer and send on none (so before any later send), every consumer whose
\* initialize throws is out of the registry when the call returns and every
\* consumer whose initialize succeeds is still registered; and a frame is only
\* ever sent in a call whose format is the current one.
C6_FormatChange ==
    /\ Returning("format")
         => /\ \A i \in Registered(entry) :
                  /\ Cardinality(CallsOf("initialize", i)) = 1
                  /\ \A k \in CallsOf("initialize", i) :
                        /\ calls[k].consumer = entry[i]
                        /\ calls[k].arg = format_desc
                        /\ consumers_[i] = IF calls[k].result = "ok" THEN entry[i]
                                           ELSE null
            /\ \A i \in Indices \ Registered(entry) :
                  consumers_[i] = null /\ CallsOf("initialize", i) = {}
            /\ \A k \in DOMAIN calls : calls[k].op = "initialize"
    /\ (\E k \in DOMAIN calls : calls[k].op = "send")
         => tick = "deliver" /\ format_desc = format_desc_

\* C6 witness: a format change in which one consumer's initialize succeeded and
\* another's threw.
C6_Witness ==
    /\ Returning("format")
    /\ \E j, k \in DOMAIN calls :
          /\ calls[j].result = "ok" /\ consumers_[calls[j].index] = calls[j].consumer
          /\ calls[k].result = "throw" /\ consumers_[calls[k].index] = null

\* C7: a call of dispatch that finds the format changed sends the frame to no
\* consumer, and when it returns the current format is the new one and the
\* pacing deadline is unset.
C7_FormatTick ==
    Returning("format")
        => /\ \A k \in DOMAIN calls : calls[k].op \notin {"send", "get"}
           /\ format_desc_ = format_desc
           /\ time_ = no_time

\* C7 witness: a format change of a dispatcher that has consumers and had a
\* deadline set by an earlier delivery.
C7_Witness ==
    /\ Returning("format")
    /\ time # no_time
    /\ Registered(entry) # {}

\* C8: when a delivery returns (add and remove are not called during it), the
\* registry holds exactly the consumers registered when it began whose send
\* neither threw nor yielded false or an exception.
C8_Eviction ==
    Returning("deliver")
        => consumers_ = [i \in Indices |-> IF Failed(i) THEN null ELSE entry[i]]

\* C8 witness: of three consumers one's send yields false and one's raises,
\* and exactly one is left.
C8_Witness ==
    /\ Returning("deliver")
    /\ Cardinality(Registered(entry)) = 3
    /\ Cardinality(Registered(consumers_)) = 1
    /\ \E j, k \in DOMAIN calls :
          /\ calls[j].index # calls[k].index
          /\ calls[j].result = "false"
          /\ calls[k].result = "throw"

\* C9: in a delivery every send is issued before any result is awaited; once
\* the first result is awaited, and when the call returns, send has been called
\* exactly once on every consumer registered when the call began, whatever
\* the other consumers' sends did; every future issued is awaited exactly once
\* before the call returns; and nothing a consumer throws leaves dispatch.
C9_IssueThenAwait ==
    /\ pc # "escaped"
    /\ \A j, k \in DOMAIN calls :
          (calls[j].op = "get" /\ calls[k].op = "send") => k < j
    /\ (pc \in {"get_loop", "pace", "done"} /\ tick = "deliver")
         => \A i \in Indices :
               /\ Cardinality(CallsOf("send", i)) = IF entry[i] # null THEN 1 ELSE 0
               /\ \A k \in CallsOf("send", i) : calls[k].consumer = entry[i]
    /\ (pc \in {"pace", "done"} /\ tick = "deliver")
         => \A i \in Indices :
               Cardinality(CallsOf("get", i)) =
                  IF \E k \in CallsOf("send", i) : calls[k].result = "future"
                  THEN 1 ELSE 0

\* C9 witness: a delivery to three consumers where the first one's send threw,
\* the second one's future yielded an exception and the third one's true.
C9_Witness ==
    /\ Returning("deliver")
    /\ Len(calls) = 5
    /\ calls[1].op = "send" /\ calls[1].result = "throw"
    /\ calls[2].op = "send" /\ calls[3].op = "send"
    /\ calls[4].op = "get" /\ calls[4].result = "throw"
    /\ calls[5].op = "get" /\ calls[5].result = "true"

\* C10: when a delivery returns, state() has exactly one entry "port/<index>"
\* for every consumer that is still registered, holding that consumer's
\* state(), and no other entry.
C10_AggregatedState ==
    Returning("deliver")
        => state_ = {<<port(i), consumer_state(consumers_[i])>> :
                        i \in Registered(consumers_)}

\* C10 witness: a delivery that evicted a consumer and left another one, whose
\* entry is the only one in state().
C10_Witness ==
    /\ Returning("deliver")
    /\ Cardinality(Registered(entry)) >= 2
    /\ Cardinality(Registered(consumers_)) = 1
    /\ Cardinality(state_) = 1

\* C11 as stated: whenever a delivery with no synchronization clock among the
\* registered consumers ends after an earlier such delivery, with no format
\* change and no delivery with a synchronization clock in between, at least
\* one frame period lies between the two ends, however late the driver called.
C11_Original ==
    [][(pc = "pace" /\ needs_sync(consumers_) /\ last_tick # no_time)
          => now' >= last_tick + period(format_desc_)]_vars

\* The earlier delivery was on time: it ended at the start time it paced from,
\* which is the deadline it left behind minus one period.
OnTime == last_tick # no_time /\ last_tick + period(format_desc_) = time_

\* C11: the deadline advances by one period from the previous deadline, not from
\* the clock. A paced delivery that follows an on-time paced delivery ends at
\* least one frame period after it; after a late one the deadline is only
\* awaited, so the distance may be shorter than one period.
C11_Paced ==
    [][(pc = "pace" /\ needs_sync(consumers_))
          => /\ now' >= time_
             /\ OnTime => now' >= last_tick + period(format_desc_)
             /\ time_' = (IF time = no_time THEN now ELSE time_) + period(format_desc_)]_vars

\* C11 witness: a delivery is about to pace itself after an on-time paced
\* delivery, and the deadline that one left behind is still ahead of the clock.
C11_Witness ==
    /\ pc = "pace"
    /\ tick = "deliver"
    /\ Registered(consumers_) # {}
    /\ needs_sync(consumers_)
    /\ OnTime
    /\ now < time_

\* C12 as stated: a delivery that leaves a consumer with a synchronization clock
\* in the registry does not wait at the pacing step and returns with the
\* pacing deadline unset, also when an earlier delivery had set one.
C12_Original ==
    [][(pc = "pace" /\ ~needs_sync(consumers_))
          => (now' = now /\ time_' = no_time)]_vars

\* the part of C12 that the code keeps: no wait, and no new deadline
C12_NoWait ==
    [][(pc = "pace" /\ ~needs_sync(consumers_))
          => (now' = now /\ time_' = time_)]_vars

\* a delivery with a synchronization clock returns with a deadline still set
C12_StaleDeadline ==
    /\ Returning("deliver")
    /\ ~needs_sync(consumers_)
    /\ time_ # no_time

\* C13 as stated: no call into a consumer (initialize, send, the future's get)
\* runs while the calling thread holds consumers_mutex_, so that a consumer
\* calling add or remove from inside the call cannot block on the mutex its own
\* thread holds.
C13_Original ==
    \A k \in DOMAIN calls : calls[k].mutex # Driver

\* initialize has run on a consumer inside the format change's lock_guard
C13_InitializeUnderLock ==
    /\ pc = "format_loop"
    /\ consumers_mutex_ = Driver
    /\ \E k \in DOMAIN calls : calls[k].op = "initialize" /\ calls[k].mutex = Driver

\* outside the format change no call into a consumer is made under the mutex
C13_OnlyFormatChange ==
    \A k \in DOMAIN calls : calls[k].mutex = Driver => tick = "format"

\* the consumers that send was called on in this call, with their indices
SentTo == {<<calls[k].index, calls[k].consumer>> :
              k \in {j \in DOMAIN calls : calls[j].op = "send"}}
\* the consumers of the snapshot taken under the lock, with their indices
InSnapshot == {<<i, consumers[i]>> : i \in Registered(consumers)}

\* C14 as stated: once the first loop of a delivery is over, send has been
\* called on exactly the consumers of the snapshot taken under the lock,
\* whatever add and remove did on other threads after the snapshot.
C14_Original ==
    (tick = "deliver" /\ pc \in {"get_loop", "pace", "done"}) => SentTo = InSnapshot

\* a consumer of the snapshot got no frame, or one outside it got one
C14_NotTheSnapshot ==
    /\ Returning("deliver")
    /\ \E e \in InSnapshot : e \notin SentTo
    /\ \E e \in SentTo : e \notin InSnapshot

\* C15 as stated: the driver reads and erases entries of consumers_ only
\* while it holds consumers_mutex_, so that no access of a delivery overlaps an
\* add or remove on another thread and leaves defined behaviour.
C15_Original ==
    /\ unlocked_access => consumers_mutex_ = Driver
    /\ pc # "undefined"

\* the driver is about to erase an entry without the lock while another thread
\* is about to insert under it
C15_UnlockedErase ==
    /\ pc = "get_loop"
    /\ p # End
    /\ evicts(futures[p])
    /\ consumers_mutex_ = "free"
    /\ \E t \in Callers : cpc[t] = "add_insert"

\* C16 as stated: add(index, consumer) goes through three steps. The first
\* empties index and changes nothing else. The second calls initialize with
\* the current format while the mutex is free and leaves the registry alone;
\* when initialize throws, add ends there, with index empty. The third, reached
\* only after initialize succeeded, leaves the registry with the new consumer at
\* index and every other index as it was.
C16_Original ==
    [][\A t \in Callers :
          /\ (cpc[t] = "idle" /\ cpc'[t] = "add_init")
                => consumers_' = [consumers_ EXCEPT ![cargs'[t][1]] = null]
          /\ (cpc[t] = "add_init" /\ cpc'[t] = "add_insert")
                => /\ cargs'[t][3] = format_desc_
                   /\ consumers_mutex_ = "free"
                   /\ consumers_' = consumers_
          /\ (cpc[t] = "add_init" /\ cpc'[t] = "idle")
                => /\ consumers_' = consumers_
                   /\ consumers_[cargs[t][1]] = null
          /\ (cpc[t] = "add_insert" /\ cpc'[t] = "idle")
                => consumers_' = [consumers_ EXCEPT ![cargs[t][1]] = cargs[t][2]]]_vars

\* the last delivery reported a at index 1 and b at index 2; since then add
\* has put d, the other consumer of index 1, in a's place and left b
C16_Replaced ==
    /\ pc = "idle"
    /\ CallersIdle
    /\ state_ = {<<port(1), consumer_state("a")>>, <<port(2), consumer_state("b")>>}
    /\ consumers_[1] = "d"
    /\ consumers_[2] = "b"

\* an add whose initialize succeeded returns while index holds the consumer
\* of another add
C16_NotRegistered ==
    \E t \in Callers :
       /\ cpc[t] = "add_insert"
       /\ consumers_[cargs[t][1]] \notin {null, cargs[t][2]}

\* the consumers that this call has called initialize or send on, with their
\* indices
Called(log) == {<<log[k].index, log[k].consumer>> :
                  k \in {j \in DOMAIN log : log[j].op \in {"initialize", "send"}}}

\* C17 as stated: whenever operator() takes a consumer out of the registry, it
\* is a consumer that this call has called initialize or send on, under that
\* index, and not another consumer that an add on another thread has put
\* under the same index in the meantime.
C17_Original ==
    [][\A i \in Indices :
          (calls' # calls /\ pc' # "undefined" /\ consumers_'[i] # consumers_[i])
             => <<i, consumers_[i]>> \in Called(calls')]_vars

\* the future of a's send has yielded false and operator() is about to erase
\* index 1, where d has been added since
C17_EvictsAnother ==
    /\ pc = "get_loop"
    /\ p = 1
    /\ evicts(futures[p])
    /\ <<1, "a">> \in SentTo
    /\ consumers_[1] = "d"

\* C19 as stated: whenever add returns without an error, the registry holds
\* add's consumer under add's index, also while another thread is inside add
\* for the same index.
C19_Original ==
    [][\A t \in Callers :
          (cpc[t] = "add_insert" /\ cpc'[t] = "idle")
             => consumers_'[cargs[t][1]] = cargs[t][2]]_vars

\* two threads are past initialize in add for the same index with different
\* consumers, and the index is still empty
C19_TwoAdds ==
    /\ cpc["t1"] = "add_insert"
    /\ cpc["t2"] = "add_insert"
    /\ cargs["t1"][1] = cargs["t2"][1]
    /\ cargs["t1"][2] # cargs["t2"][2]
    /\ consumers_[cargs["t1"][1]] = null

\* a frame has been delivered in the format wanted
DeliveredWanted == Returning("deliver") /\ format_desc_ = wanted

\* C20 as stated: when the driver keeps calling operator() with a format and
\* with non-empty frames of that format's size, that format eventually is the
\* current one and a frame is delivered in it, whatever the current format was.
C20_Original == <>DeliveredWanted

\* the part of C20 that the code keeps: a format of the current frame size
\* takes effect and frames are delivered in it
C20_SameSize ==
    (pc = "idle" /\ now = 0 /\ size(format_desc_) = size(wanted)) ~> DeliveredWanted

\* a frame of the wanted format's size is dropped as invalid, and the call
\* leaves the current format as it was
C20_Dropped ==
    /\ Returning("invalid")
    /\ input_frame = size(format_desc)
    /\ format_desc_ # format_desc

\* the planes of the duplicated frames that are held, as <<frame, plane>>
HeldPlanes == {fn \in FrameIds \X PlaneCounts :
                 frames[fn[1]].status = "held" /\ fn[2] <= Len(frames[fn[1]].real_ptrs)}
\* the block that was allocated for a plane
BlockOf(fn) == frames[fn[1]].real_ptrs[fn[2]][1]

\* C18: a duplicated frame that is held has a deleter that has not run, and
\* each of its data pointers points into the block allocated for that plane
\* and not at the codec's buffer; the blocks allocated are exactly those of the
\* planes of the frames held, one block per plane; once the last holder has
\* let go the deleter has run once and the AVFrame's data pointers are the
\* codec's again; and scalable_aligned_free never gets anything but the start
\* of an allocated block.
C18_Duplicate ==
    /\ ~invalid_free
    /\ heap = {BlockOf(fn) : fn \in HeldPlanes}
    /\ \A fn, gm \in HeldPlanes : BlockOf(fn) = BlockOf(gm) => fn = gm
    /\ \A f \in FrameIds :
          /\ frames[f].status = "held"
                => /\ frames[f].use_count >= 1
                   /\ frames[f].deleted = 0
                   /\ \A n \in DOMAIN frames[f].data :
                         /\ frames[f].data[n][1] = frames[f].real_ptrs[n][1]
                         /\ frames[f].data[n][1] # 0
                         /\ frames[f].org_ptrs[n] = decoder_buffer(f, n)
          /\ frames[f].status = "released"
                => /\ frames[f].use_count = 0
                   /\ frames[f].deleted = 1
                   /\ \A n \in DOMAIN frames[f].data :
                         frames[f].data[n] = decoder_buffer(f, n)

\* C18 witness: a frame of several planes has been released and its pointers
\* restored while a later frame, copied to an unaligned place, has two holders.
C18_Witness ==
    /\ frames[1].status = "released"
    /\ Len(frames[1].data) = MaxPlanes
    /\ frames[2].status = "held"
    /\ frames[2].use_count = 2
    /\ \E n \in DOMAIN frames[2].data : frames[2].data[n][2] # 0

=============================================================================
